---- MODULE Spec2Model ----
(***************************************************************************)
(* Model of the gurbani-finder scripts: the text cleaning, the local       *)
(* corpus searches (main_app.py, convert_to_json.py), the remote search    *)
(* (app.py, search_sttm_api) and the audio pipeline                        *)
(* (main_app.py, process_gurbani_audio).                                   *)
(*                                                                         *)
(* A Python str is a sequence of characters; a character is one of the     *)
(* names below, one per class of code point the code tells apart.          *)
(***************************************************************************)
EXTENDS Integers, Sequences, FiniteSets, TLC

VARIABLES
    op,               \* the entry point this run calls
    pc,               \* the position inside the entry point
    outcome,          \* "running", "returned" (a list), "returned_none", "raised"
    query_arg,        \* the query argument as passed
    query_text,       \* the local query_text (reassigned by the cleaning)
    limit,            \* the limit argument
    data,             \* the loaded corpus (list of records)
    results,          \* the list returned
    words,            \* search_sttm_api: words
    search_queries,   \* search_sttm_api: search_queries
    qi,               \* search_sttm_api: position in search_queries
    all_results,      \* search_sttm_api: all_results
    requests,         \* the 'q' of the remote requests issued so far
    responses,        \* the remote responses received so far
    errors,           \* what was reported on an error path (st.error / print)
    file_exists,      \* process_gurbani_audio: os.path.exists(audio_file_path)
    use_audio_cleaning,
    clean_outcome,    \* how clean_audio_file ended
    audio_to_transcribe,
    devanagari_text,
    gurmukhi_text,
    stages,           \* the pipeline stages started so far, in order
    variant,          \* clean_gurmukhi_text: which script's variant is called
    text_value,       \* clean_gurmukhi_text: the argument, then the value returned
    prev_value,       \* the value text_value had before the last call
    passes,           \* how many times the text was cleaned
    listing,          \* converter: the names os.walk finds in the folder
    fi,               \* converter: position in sorted(files)
    json_records,     \* converter: records (the name is taken by parameters)
    file_count        \* converter: file_count

vars == <<op, pc, outcome, query_arg, query_text, limit, data, results, words,
          search_queries, qi, all_results, requests, responses, errors,
          file_exists, use_audio_cleaning, clean_outcome, audio_to_transcribe,
          devanagari_text, gurmukhi_text, stages, variant, text_value,
          prev_value, passes, listing, fi, json_records, file_count>>

\* the variables of the text cleaning and of the converter
tool_vars == <<variant, text_value, prev_value, passes, listing, fi, json_records,
               file_count>>

----------------------------------------------------------------------------
(* Characters *)

KA      == "ka"       \* a Gurmukhi letter, U+0A15
GA      == "ga"       \* a Gurmukhi letter, U+0A17
VIRAMA  == "virama"   \* Gurmukhi sign virama, U+0A4D
HALANT  == "halant"   \* Devanagari sign virama, U+094D
DKA     == "dka"      \* a Devanagari letter, U+0915
DGA     == "dga"      \* a Devanagari letter, U+0917
SP      == "sp"       \* the space, U+0020
TAB     == "tab"      \* another whitespace character
LX      == "x"        \* a Latin lower-case letter
UX      == "X"        \* the same letter in upper case

\* '\u0A00' <= char <= '\u0A7F'
IsGurmukhi(c) == c \in {KA, GA, VIRAMA}

\* char.isspace(), and the class \s of re
IsSpace(c) == c \in {SP, TAB}

\* str.lower() on one character
LowerChar(c) == IF c = UX THEN LX ELSE c

Lower(s) == [i \in 1..Len(s) |-> LowerChar(s[i])]

----------------------------------------------------------------------------
(* str helpers *)

\* text.replace(c, '') for a one-character c
RECURSIVE RemoveChar(_, _)
RemoveChar(s, c) ==
    IF s = <<>> THEN <<>>
    ELSE (IF Head(s) = c THEN <<>> ELSE <<Head(s)>>) \o RemoveChar(Tail(s), c)

\* ''.join(char for char in text if '\u0A00' <= char <= '\u0A7F' or char.isspace())
RECURSIVE KeepGurmukhiAndSpace(_)
KeepGurmukhiAndSpace(s) ==
    IF s = <<>> THEN <<>>
    ELSE (IF IsGurmukhi(Head(s)) \/ IsSpace(Head(s)) THEN <<Head(s)>> ELSE <<>>)
         \o KeepGurmukhiAndSpace(Tail(s))

\* re.sub(r'\s+', ' ', text): every maximal run of whitespace becomes one space
RECURSIVE CollapseSpaces(_)
CollapseSpaces(s) ==
    IF s = <<>> THEN <<>>
    ELSE IF IsSpace(Head(s))
         THEN IF Len(s) > 1 /\ IsSpace(s[2])
              THEN CollapseSpaces(Tail(s))
              ELSE <<SP>> \o CollapseSpaces(Tail(s))
         ELSE <<Head(s)>> \o CollapseSpaces(Tail(s))

RECURSIVE LStrip(_)
LStrip(s) == IF s # <<>> /\ IsSpace(Head(s)) THEN LStrip(Tail(s)) ELSE s

RECURSIVE RStrip(_)
RStrip(s) ==
    IF s # <<>> /\ IsSpace(s[Len(s)]) THEN RStrip(SubSeq(s, 1, Len(s) - 1)) ELSE s

\* str.strip()
Strip(s) == RStrip(LStrip(s))

\* str.split(): the maximal runs of non-whitespace characters, in order
RECURSIVE SplitFrom(_, _)
SplitFrom(s, cur) ==
    IF s = <<>> THEN (IF cur = <<>> THEN <<>> ELSE <<cur>>)
    ELSE IF IsSpace(Head(s))
         THEN (IF cur = <<>> THEN <<>> ELSE <<cur>>) \o SplitFrom(Tail(s), <<>>)
         ELSE SplitFrom(Tail(s), Append(cur, Head(s)))

Split(s) == SplitFrom(s, <<>>)

\* ' '.join(ws)
RECURSIVE JoinSpace(_)
JoinSpace(ws) ==
    IF ws = <<>> THEN <<>>
    ELSE IF Len(ws) = 1 THEN ws[1]
    ELSE ws[1] \o <<SP>> \o JoinSpace(Tail(ws))

\* needle in hay (str containment)
Contains(hay, needle) ==
    \E i \in 0..(Len(hay) - Len(needle)) :
        \A j \in 1..Len(needle) : hay[i + j] = needle[j]

\* a slice that takes one element too many
SliceOneMore(s, lo, hi) ==
    LET h == IF hi + 1 > Len(s) THEN Len(s) ELSE hi + 1
    IN  IF lo >= h THEN <<>> ELSE SubSeq(s, lo + 1, h)

\* seq[lo:hi] with 0 <= lo, 0 <= hi (Python slice, 0-based, hi exclusive)
Slice(s, lo, hi) ==
    LET h == IF hi > Len(s) THEN Len(s) ELSE hi
    IN  IF lo >= h THEN <<>> ELSE SubSeq(s, lo + 1, h)

----------------------------------------------------------------------------
(* clean_gurmukhi_text, the two variants *)

\* main_app.py: removes the Devanagari halant only
clean_gurmukhi_text_main(text) ==
    LET t1 == CollapseSpaces(text)
        t2 == RemoveChar(t1, HALANT)
        cleaned == KeepGurmukhiAndSpace(t2)
    IN  Strip(cleaned)

\* app.py: removes the Gurmukhi virama and the Devanagari halant
clean_gurmukhi_text_app(text) ==
    LET t1 == CollapseSpaces(text)
        t2 == RemoveChar(RemoveChar(t1, VIRAMA), HALANT)
        cleaned == KeepGurmukhiAndSpace(t2)
    IN  Strip(cleaned)

\* [w for w in query_text.split() if len(w) > 2]
MinWordLen == 2

\* every word, whatever its length
LongWordsAll(ws) == ws

RECURSIVE LongWords(_)
LongWords(ws) ==
    IF ws = <<>> THEN <<>>
    ELSE (IF Len(Head(ws)) > MinWordLen THEN <<Head(ws)>> ELSE <<>>)
         \o LongWords(Tail(ws))

QueryWords(cleaned) == LongWords(Split(cleaned))

----------------------------------------------------------------------------
(* The corpus: gurbani.json as convert_to_json.py writes it *)

\* a value that may be absent: {} is None, {v} is v
Some(v) == {v}
Absent  == {}

PreferredAssets == {"SBMS", "DSSK"}

\* the text of the first translation whose asset is SBMS or DSSK, '' if none
RECURSIVE FirstPreferredText(_)
FirstPreferredText(en_list) ==
    IF en_list = <<>> THEN ""
    ELSE IF Head(en_list).asset \in PreferredAssets THEN Head(en_list).text
    ELSE FirstPreferredText(Tail(en_list))

\* the first English translation, whatever its asset
EnglishOfFirstOnly(record) ==
    IF "en" \in DOMAIN record.translations /\ record.translations["en"] # <<>>
    THEN record.translations["en"][1].text
    ELSE ""

\* english_trans of a record
EnglishOf(record) ==
    LET translations_dict == record.translations
    IN  IF "en" \in DOMAIN translations_dict
        THEN LET en_list == translations_dict["en"]
                 preferred == IF en_list # <<>> THEN FirstPreferredText(en_list) ELSE ""
             IN  IF en_list # <<>> /\ preferred = "" /\ Len(en_list) > 0
                 THEN en_list[1].text
                 ELSE preferred
        ELSE ""

\* punjabi_trans of a record
PunjabiOf(record) ==
    LET translations_dict == record.translations
    IN  IF "pa" \in DOMAIN translations_dict /\ translations_dict["pa"] # <<>>
        THEN translations_dict["pa"][1].text
        ELSE ""

\* the number of distinct query words found in the line
MatchScoreDistinct(query_words, gurmukhi) ==
    Cardinality({query_words[k] : k \in {j \in 1..Len(query_words) :
                                             Contains(gurmukhi, query_words[j])}})

\* sum(1 for word in query_words if word in gurmukhi)
RECURSIVE MatchScore(_, _)
MatchScore(query_words, gurmukhi) ==
    IF query_words = <<>> THEN 0
    ELSE (IF Contains(gurmukhi, Head(query_words)) THEN 1 ELSE 0)
         + MatchScore(Tail(query_words), gurmukhi)

----------------------------------------------------------------------------
(* Scores and list.sort(key=score, reverse=True) *)

\* a score is a fraction <<numerator, denominator>>; a match_score n is <<n, 1>>
ScoreOf(r) == IF "match_score" \in DOMAIN r THEN <<r.match_score, 1>> ELSE r.similarity

ScoreLess(a, b)  == a[1] * b[2] < b[1] * a[2]
ScoreEqual(a, b) == a[1] * b[2] = b[1] * a[2]

\* a sort that is descending but puts r before the entries of equal score
RECURSIVE InsertUnstable(_, _)
InsertUnstable(sorted, r) ==
    IF sorted = <<>> THEN <<r>>
    ELSE IF ScoreLess(ScoreOf(r), ScoreOf(Head(sorted)))
         THEN <<Head(sorted)>> \o InsertUnstable(Tail(sorted), r)
         ELSE <<r>> \o sorted

\* the place of r in a list already sorted: after every entry whose score is
\* at least r's (an equal score keeps the earlier entry first)
RECURSIVE InsertDesc(_, _)
InsertDesc(sorted, r) ==
    IF sorted = <<>> THEN <<r>>
    ELSE IF ScoreLess(ScoreOf(Head(sorted)), ScoreOf(r))
         THEN <<r>> \o sorted
         ELSE <<Head(sorted)>> \o InsertDesc(Tail(sorted), r)

RECURSIVE SortFrom(_, _)
SortFrom(sorted, rest) ==
    IF rest = <<>> THEN sorted
    ELSE SortFrom(InsertDesc(sorted, Head(rest)), Tail(rest))

\* rs.sort(key=lambda x: x[score], reverse=True): descending and stable
SortDesc(rs) == SortFrom(<<>>, rs)

----------------------------------------------------------------------------
(* main_app.py, search_gurbani *)

\* the dict appended for one matching record; src is the position of the
\* record in the corpus (a ghost field, used to state the order of ties)
MainResult(record, i, match_score) ==
    [gurmukhi    |-> record.gurmukhi,
     english     |-> EnglishOf(record),
     punjabi     |-> PunjabiOf(record),
     page        |-> record.page,
     line        |-> record.line,
     asset       |-> record.asset,
     match_score |-> match_score,
     src         |-> i]

\* a loop that leaves out the records without a page
RECURSIVE MainScanPaged(_, _, _)
MainScanPaged(records, i, query_words) ==
    IF i > Len(records) THEN <<>>
    ELSE LET match_score == MatchScore(query_words, records[i].gurmukhi)
         IN  (IF match_score > 0 /\ records[i].page # Absent
              THEN <<MainResult(records[i], i, match_score)>>
              ELSE <<>>)
             \o MainScanPaged(records, i + 1, query_words)

\* the for loop over data, from record i on
RECURSIVE MainScan(_, _, _)
MainScan(records, i, query_words) ==
    IF i > Len(records) THEN <<>>
    ELSE LET match_score == MatchScore(query_words, records[i].gurmukhi)
         IN  (IF match_score > 0
              THEN <<MainResult(records[i], i, match_score)>>
              ELSE <<>>)
             \o MainScan(records, i + 1, query_words)

main_search_gurbani(query, records, lim) ==
    LET query_words == QueryWords(clean_gurmukhi_text_main(query))
    IN  IF query_words = <<>> THEN <<>>
        ELSE Slice(SortDesc(MainScan(records, 1, query_words)), 0, lim)

----------------------------------------------------------------------------
(* convert_to_json.py, search_gurbani *)

ConvResult(record, i) ==
    [gurmukhi         |-> record.gurmukhi,
     english          |-> EnglishOf(record),
     punjabi          |-> PunjabiOf(record),
     page             |-> record.page,
     line             |-> record.line,
     asset            |-> record.asset,
     all_translations |-> record.translations,
     src              |-> i]

\* the for loop over data, from record i on, with the results found so far
RECURSIVE ConvScan(_, _, _, _, _)
ConvScan(records, i, query, lim, found) ==
    IF i > Len(records) THEN found
    ELSE LET gurmukhi == records[i].gurmukhi
         IN  IF Contains(gurmukhi, query) \/ Contains(Lower(gurmukhi), Lower(query))
             THEN LET found2 == Append(found, ConvResult(records[i], i))
                  IN  IF Len(found2) >= lim THEN found2
                      ELSE ConvScan(records, i + 1, query, lim, found2)
             ELSE ConvScan(records, i + 1, query, lim, found)

conv_search_gurbani(query, records, lim) == ConvScan(records, 1, query, lim, <<>>)

----------------------------------------------------------------------------
(* difflib.SequenceMatcher(None, a, b).ratio(), for strings under 200        *)
(* characters (no element is treated as junk)                                *)

\* length of the common run that starts at a[i] and b[j] and stays inside
\* a[..ahi], b[..bhi] (1-based, inclusive)
RECURSIVE CommonLen(_, _, _, _, _, _)
CommonLen(a, i, ahi, b, j, bhi) ==
    IF i > ahi \/ j > bhi THEN 0
    ELSE IF a[i] # b[j] THEN 0
    ELSE 1 + CommonLen(a, i + 1, ahi, b, j + 1, bhi)

\* find_longest_match: the longest block, the one that starts earliest in a
\* and, of those, earliest in b
find_longest_match(a, alo, ahi, b, blo, bhi) ==
    LET pairs == (alo..ahi) \X (blo..bhi)
        size(p) == CommonLen(a, p[1], ahi, b, p[2], bhi)
        best == CHOOSE k \in 0..(ahi - alo + 1) :
                    /\ \A p \in pairs : size(p) <= k
                    /\ k = 0 \/ \E p \in pairs : size(p) = k
        at == CHOOSE p \in pairs :
                  /\ size(p) = best
                  /\ \A q \in pairs : size(q) = best =>
                        (p[1] < q[1] \/ (p[1] = q[1] /\ p[2] <= q[2]))
    IN  IF pairs = {} \/ best = 0 THEN <<alo, blo, 0>>
        ELSE <<at[1], at[2], best>>

\* the number of characters in get_matching_blocks()
RECURSIVE MatchedChars(_, _, _, _, _, _)
MatchedChars(a, alo, ahi, b, blo, bhi) ==
    IF alo > ahi \/ blo > bhi THEN 0
    ELSE LET m == find_longest_match(a, alo, ahi, b, blo, bhi)
         IN  IF m[3] = 0 THEN 0
             ELSE m[3]
                  + MatchedChars(a, alo, m[1] - 1, b, blo, m[2] - 1)
                  + MatchedChars(a, m[1] + m[3], ahi, b, m[2] + m[3], bhi)

\* ratio() = 2.0 * matches / (len(a) + len(b)), 1.0 for two empty strings
Ratio(a, b) ==
    IF Len(a) + Len(b) = 0 THEN <<1, 1>>
    ELSE <<2 * MatchedChars(a, 1, Len(a), b, 1, Len(b)), Len(a) + Len(b)>>

----------------------------------------------------------------------------
(* app.py, search_sttm_api *)

\* the list as it is, repeated entries kept
DedupNone(qs, seen) == qs

\* list(dict.fromkeys(qs)): the first occurrence of each entry, in order
RECURSIVE DedupFrom(_, _)
DedupFrom(qs, seen) ==
    IF qs = <<>> THEN <<>>
    ELSE IF Head(qs) \in seen THEN DedupFrom(Tail(qs), seen)
    ELSE <<Head(qs)>> \o DedupFrom(Tail(qs), seen \cup {Head(qs)})

FirstWords  == 5
FewerWords  == 3
MiddleFrom  == 1
MiddleTo    == 4

SearchQueries(ws) ==
    DedupFrom(<< JoinSpace(Slice(ws, 0, FirstWords)),
                 JoinSpace(Slice(ws, 0, FewerWords)),
                 JoinSpace(Slice(ws, MiddleFrom, MiddleTo)) >>, {})

\* the dict appended for one verse of a response; src is the number of the
\* verse in order of arrival (a ghost field, used to state the order of ties)
ApiResult(verse, cleaned_query, n) ==
    [gurmukhi   |-> verse.gurmukhi,
     english    |-> verse.english,
     page       |-> verse.page,
     line       |-> verse.line,
     similarity |-> Ratio(Lower(cleaned_query), Lower(verse.gurmukhi)),
     src        |-> n]

\* for verse in data['verses']: all_results.append(...)
RECURSIVE AppendVerses(_, _, _)
AppendVerses(acc, verses, cleaned_query) ==
    IF verses = <<>> THEN acc
    ELSE AppendVerses(Append(acc, ApiResult(Head(verses), cleaned_query, Len(acc) + 1)),
                      Tail(verses), cleaned_query)

\* the seen / unique_results loop
RECURSIVE UniqueFrom(_, _)
UniqueFrom(rs, seen) ==
    IF rs = <<>> THEN <<>>
    ELSE IF Head(rs).gurmukhi \in seen THEN UniqueFrom(Tail(rs), seen)
    ELSE <<Head(rs)>> \o UniqueFrom(Tail(rs), seen \cup {Head(rs).gurmukhi})

\* no deduplication at all
UniqueResultsNone(rs) == rs

UniqueResults(rs) == UniqueFrom(rs, {})

----------------------------------------------------------------------------
(* indic_transliteration: transliterate(text, DEVANAGARI, GURMUKHI) *)

TransliterateChar(c) ==
    CASE c = DKA    -> KA
      [] c = DGA    -> GA
      [] c = HALANT -> VIRAMA
      [] OTHER      -> c

Transliterate(s) == [i \in 1..Len(s) |-> TransliterateChar(s[i])]

\* main_app.py, convert_devanagari_to_gurmukhi
convert_devanagari_to_gurmukhi(text) == clean_gurmukhi_text_main(Transliterate(text))

----------------------------------------------------------------------------
(* convert_to_json.py, the conversion of the TOML files (lines 26-125) *)

\* the value of a key that is there
The(opt) == CHOOSE v \in opt : TRUE

\* int(primary.get(key)) if key in primary else None, None when int() raises;
\* a raw value is missing, a number, or something int() rejects
RawMissing == [present |-> FALSE, numeric |-> FALSE, value |-> 0]
RawInt(n)  == [present |-> TRUE, numeric |-> TRUE, value |-> n]
RawBad     == [present |-> TRUE, numeric |-> FALSE, value |-> 0]

ToInt(raw) == IF raw.present /\ raw.numeric THEN Some(raw.value) ELSE Absent

\* a translation block that is kept: it has a language, and text and language
\* are not empty
KeptTranslation(block) ==
    /\ block.type = "translation"
    /\ block.language # Absent
    /\ Strip(block.data) # <<>>
    /\ The(block.language) # ""

\* translations[lang], in the order of the blocks
RECURSIVE TranslationsIn(_, _)
TranslationsIn(contents, lang) ==
    IF contents = <<>> THEN <<>>
    ELSE (IF KeptTranslation(Head(contents)) /\ The(Head(contents).language) = lang
          THEN << [text  |-> Strip(Head(contents).data),
                   asset |-> IF Head(contents).asset = Absent THEN ""
                             ELSE The(Head(contents).asset)] >>
          ELSE <<>>)
         \o TranslationsIn(Tail(contents), lang)

\* unique_trans: the first translation of each text
RECURSIVE UniqueByText(_, _)
UniqueByText(trans_list, seen) ==
    IF trans_list = <<>> THEN <<>>
    ELSE IF Head(trans_list).text \in seen THEN UniqueByText(Tail(trans_list), seen)
    ELSE <<Head(trans_list)>>
         \o UniqueByText(Tail(trans_list), seen \cup {Head(trans_list).text})

\* formatted_translations of a file
FormattedTranslations(contents) ==
    LET langs == {The(contents[k].language) :
                     k \in {j \in 1..Len(contents) : KeptTranslation(contents[j])}}
    IN  [lang \in langs |-> UniqueByText(TranslationsIn(contents, lang), {})]

\* the records of the primary blocks of a file, from block k on
RECURSIVE PrimaryRecords(_, _, _)
PrimaryRecords(fname, contents, k) ==
    IF k > Len(contents) THEN <<>>
    ELSE LET primary == contents[k]
             gurmukhi == Strip(primary.data)
         IN  (IF primary.type = "primary" /\ gurmukhi # <<>>
              THEN << [source_file  |-> fname,
                       asset        |-> primary.asset,
                       page         |-> ToInt(primary.page),
                       line         |-> ToInt(primary.line),
                       gurmukhi     |-> gurmukhi,
                       translations |-> FormattedTranslations(contents)] >>
              ELSE <<>>)
             \o PrimaryRecords(fname, contents, k + 1)

\* sorted(files): the names in ascending order
RECURSIVE SortedNames(_)
SortedNames(names) ==
    IF names = {} THEN <<>>
    ELSE LET first == CHOOSE n \in names : \A m \in names : n <= m
         IN  <<first>> \o SortedNames(names \ {first})

----------------------------------------------------------------------------
(* Inputs *)

MaxPieces == 3     \* pieces a query is put together from
MaxCorpus == 2     \* records in the corpus
MaxVerses == 1     \* verses in one remote response

DefaultLimit  == 10
PipelineLimit == 5

W3a == <<KA, GA, KA>>
W3b == <<GA, GA, KA>>
W2  == <<KA, GA>>

Pieces == {W3a, W3b, W2, <<SP>>, <<LX>>}

RECURSIVE TextsOf(_)
TextsOf(n) ==
    IF n = 0 THEN {<<>>}
    ELSE LET shorter == TextsOf(n - 1)
         IN  shorter \cup {t \o p : t \in shorter, p \in Pieces}

Queries == TextsOf(MaxPieces)

Limits == {0, 1, DefaultLimit}

Line1 == W3a \o <<SP>> \o W3b
Line2 == W3a
Line3 == W3b \o <<SP>> \o W2

Tr(text, asset) == [text |-> text, asset |-> asset]

\* records as the converter writes them: gurmukhi stripped and not empty,
\* every translation text not empty, page and line an int or null
Records ==
    { [gurmukhi |-> Line1, page |-> Some(1), line |-> Some(1), asset |-> Some("SGGS"),
       translations |-> [en |-> <<Tr("en first", "GGMP"), Tr("en dssk", "DSSK"),
                                  Tr("en sbms", "SBMS")>>,
                         pa |-> <<Tr("pa first", "SS")>>]],
      [gurmukhi |-> Line1, page |-> Some(2), line |-> Some(7), asset |-> Some("SGGS"),
       translations |-> [en |-> <<Tr("en plain", "GGMP"), Tr("en other", "")>>]],
      [gurmukhi |-> Line2, page |-> Absent, line |-> Absent, asset |-> Absent,
       translations |-> <<>>],
      [gurmukhi |-> Line3, page |-> Some(3), line |-> Absent, asset |-> Some("SGGS"),
       translations |-> [pa |-> <<Tr("pa only", "SS")>>]] }

RECURSIVE CorporaOf(_)
CorporaOf(n) ==
    IF n = 0 THEN {<<>>}
    ELSE LET shorter == CorporaOf(n - 1)
         IN  shorter \cup {Append(c, r) : c \in shorter, r \in Records}

Corpora == CorporaOf(MaxCorpus)

\* queries of search_sttm_api: 0, 1, 2, 4 and 6 words, with noise
ApiQueries ==
    { <<>>,
      W2 \o <<SP, LX>>,
      W3a,
      W3a \o <<TAB, SP>> \o W3b \o <<LX>>,
      W3a \o <<SP>> \o W3b \o <<SP>> \o W3a \o <<SP>> \o W3b,
      W3a \o <<SP>> \o W3b \o <<SP>> \o W3b \o <<SP>> \o W3a \o <<SP>> \o W3a \o <<SP>> \o W3b }

\* verses of a remote response, after the .get() defaults
Verses ==
    { [gurmukhi |-> Line1, english |-> "bdb one", page |-> 1, line |-> 1],
      [gurmukhi |-> Line3, english |-> "", page |-> 2, line |-> 5],
      [gurmukhi |-> <<GA, GA, KA, SP, KA, GA, KA>>, english |-> "bdb three", page |-> 3, line |-> 2] }

RECURSIVE VerseListsOf(_)
VerseListsOf(n) ==
    IF n = 0 THEN {<<>>}
    ELSE LET shorter == VerseListsOf(n - 1)
         IN  shorter \cup {Append(l, v) : l \in shorter, v \in Verses}

\* what requests.get can do: raise; answer with a status, a body that parses or
\* not, and a 'verses' list that is there or not
Response(status, json_ok, has_verses, verses) ==
    [status |-> status, json_ok |-> json_ok, has_verses |-> has_verses, verses |-> verses]

HttpOk == 200

\* status 0 stands for a request that raised (no response), 500 for any
\* status other than 200
Responses ==
    { Response(0, FALSE, FALSE, <<>>),
      Response(500, TRUE, FALSE, <<>>),
      Response(HttpOk, FALSE, FALSE, <<>>),
      Response(HttpOk, TRUE, FALSE, <<>>) }
    \cup { Response(HttpOk, TRUE, TRUE, l) : l \in VerseListsOf(MaxVerses) }

TBlock(type, chars, language, asset, page, line) ==
    [type |-> type, data |-> chars, language |-> language, asset |-> asset,
     page |-> page, line |-> line]

\* the files of the folder, by name (names sort as the numbers do): whether
\* the name ends in .toml, whether toml.load accepts it, and its content blocks
TomlFiles ==
    << [toml |-> TRUE, parses |-> TRUE, content |->
          << TBlock("translation", <<SP, LX, UX, SP>>, Some("en"), Some("SBMS"), RawMissing, RawMissing),
             TBlock("translation", <<LX, UX>>, Some("en"), Some("GGMP"), RawMissing, RawMissing),
             TBlock("translation", <<SP, TAB>>, Some("pa"), Absent, RawMissing, RawMissing),
             TBlock("note", <<LX>>, Some("en"), Absent, RawMissing, RawMissing),
             TBlock("primary", <<SP>> \o Line1 \o <<SP>>, Absent, Some("SGGS"), RawInt(1), RawInt(2)) >>],
       [toml |-> FALSE, parses |-> FALSE, content |-> <<>>],
       [toml |-> TRUE, parses |-> FALSE, content |-> <<>>],
       [toml |-> TRUE, parses |-> TRUE, content |->
          << TBlock("primary", Line3, Absent, Absent, RawBad, RawMissing),
             TBlock("primary", <<SP, TAB>>, Absent, Some("SGGS"), RawInt(2), RawInt(1)),
             TBlock("translation", <<UX>>, Absent, Some("SBMS"), RawMissing, RawMissing),
             TBlock("translation", <<LX>>, Some(""), Some("SBMS"), RawMissing, RawMissing),
             TBlock("primary", Line2, Absent, Some("SGGS"), RawInt(3), RawInt(1)) >>],
       [toml |-> TRUE, parses |-> TRUE, content |-> <<>>],
       [toml |-> TRUE, parses |-> TRUE, content |->
          << TBlock("translation", <<LX>>, Some("pa"), Some("SS"), RawMissing, RawMissing) >>] >>

FileNames == 1..Len(TomlFiles)

\* what the transcription backend can return
Transcripts ==
    { <<>>,
      <<SP>>,
      <<LX, LX, LX>>,
      <<DKA, DGA, DKA>>,
      <<DKA, DGA, DKA, SP, DGA, DGA, DKA>>,
      <<DGA, HALANT, DGA, DKA, SP, DKA, DGA>> }

CleanOutcomes == {"cleaned", "ImportError", "Exception"}

MaxText == 5       \* characters in a text handed to clean_gurmukhi_text

CleanChars == {KA, VIRAMA, HALANT, SP, TAB, LX}

\* every text of at most MaxText characters
CleanInputs == UNION {[1..n -> CleanChars] : n \in 0..MaxText}

PipelineCorpus ==
    << CHOOSE r \in Records : r.page = Some(1),
       CHOOSE r \in Records : r.page = Some(3),
       CHOOSE r \in Records : r.page = Absent >>

----------------------------------------------------------------------------
(* Initial states: one call of one entry point, on any input *)

Idle ==
    /\ pc = "call"
    /\ outcome = "running"
    /\ results = <<>>
    /\ words = <<>>
    /\ search_queries = <<>>
    /\ qi = 0
    /\ all_results = <<>>
    /\ requests = <<>>
    /\ responses = <<>>
    /\ errors = <<>>
    /\ clean_outcome = "none"
    /\ audio_to_transcribe = "none"
    /\ devanagari_text = <<>>
    /\ gurmukhi_text = <<>>
    /\ stages = <<>>

\* nothing cleaned, nothing converted
NoTool ==
    /\ variant = "none"
    /\ text_value = <<>>
    /\ prev_value = <<>>
    /\ passes = 0
    /\ listing = {}
    /\ fi = 0
    /\ json_records = <<>>
    /\ file_count = 0

InitLocal ==
    /\ op \in {"main_search", "conv_search"}
    /\ query_arg \in Queries
    /\ query_text = query_arg
    /\ limit \in Limits
    /\ data \in Corpora
    /\ file_exists = TRUE
    /\ use_audio_cleaning = FALSE
    /\ Idle
    /\ NoTool

InitApi ==
    /\ op = "sttm_api"
    /\ query_arg \in ApiQueries
    /\ query_text = query_arg
    /\ limit \in Limits
    /\ data = <<>>
    /\ file_exists = TRUE
    /\ use_audio_cleaning = FALSE
    /\ Idle
    /\ NoTool

InitPipeline ==
    /\ op = "pipeline"
    /\ query_arg = <<>>
    /\ query_text = <<>>
    /\ limit = PipelineLimit
    /\ data = PipelineCorpus
    /\ file_exists \in BOOLEAN
    /\ use_audio_cleaning \in BOOLEAN
    /\ Idle
    /\ NoTool

\* the variables of the searches and of the pipeline, when neither runs
NoCall ==
    /\ query_arg = <<>>
    /\ query_text = <<>>
    /\ limit = DefaultLimit
    /\ data = <<>>
    /\ file_exists = TRUE
    /\ use_audio_cleaning = FALSE
    /\ Idle

InitClean ==
    /\ op = "clean"
    /\ variant \in {"main", "app"}
    /\ text_value \in CleanInputs
    /\ prev_value = <<>>
    /\ passes = 0
    /\ listing = {}
    /\ fi = 0
    /\ json_records = <<>>
    /\ file_count = 0
    /\ NoCall

InitConvert ==
    /\ op = "convert"
    /\ listing \in SUBSET FileNames
    /\ fi = 1
    /\ json_records = <<>>
    /\ file_count = 0
    /\ variant = "none"
    /\ text_value = <<>>
    /\ prev_value = <<>>
    /\ passes = 0
    /\ NoCall

Init == InitLocal \/ InitApi \/ InitPipeline \/ InitClean \/ InitConvert

----------------------------------------------------------------------------
(* main_app.py, search_gurbani(query_text, limit) *)

MainSearch ==
    /\ op = "main_search" /\ pc = "call"
    /\ query_text' = clean_gurmukhi_text_main(query_arg)
    /\ words' = QueryWords(query_text')
    /\ results' = main_search_gurbani(query_arg, data, limit)
    /\ errors' = IF words' = <<>> THEN Append(errors, "No meaningful words") ELSE errors
    /\ outcome' = "returned"
    /\ pc' = "done"
    /\ UNCHANGED <<op, query_arg, limit, data, search_queries, qi, all_results,
                   requests, responses, file_exists, use_audio_cleaning,
                   clean_outcome, audio_to_transcribe, devanagari_text,
                   gurmukhi_text, stages>>
    /\ UNCHANGED tool_vars

(* convert_to_json.py, search_gurbani(query_text, json_file, limit) *)

ConvSearch ==
    /\ op = "conv_search" /\ pc = "call"
    /\ results' = conv_search_gurbani(query_arg, data, limit)
    /\ outcome' = "returned"
    /\ pc' = "done"
    /\ UNCHANGED <<op, query_arg, query_text, limit, data, words, search_queries, qi,
                   all_results, requests, responses, errors, file_exists,
                   use_audio_cleaning, clean_outcome, audio_to_transcribe,
                   devanagari_text, gurmukhi_text, stages>>
    /\ UNCHANGED tool_vars

----------------------------------------------------------------------------
(* app.py, search_sttm_api(query_text, limit) *)

pipeline_vars == <<file_exists, use_audio_cleaning, clean_outcome,
                   audio_to_transcribe, devanagari_text, gurmukhi_text, stages>>

\* lines 160-176: clean, split, return [] or build the search queries
ApiStart ==
    /\ op = "sttm_api" /\ pc = "call"
    /\ query_text' = clean_gurmukhi_text_app(query_arg)
    /\ words' = QueryWords(query_text')
    /\ IF words' = <<>>
       THEN /\ results' = <<>>
            /\ outcome' = "returned"
            /\ pc' = "done"
            /\ UNCHANGED <<search_queries, qi>>
       ELSE /\ search_queries' = SearchQueries(words')
            /\ qi' = 1
            /\ pc' = "request"
            /\ UNCHANGED <<results, outcome>>
    /\ UNCHANGED <<op, query_arg, limit, data, all_results, requests, responses, errors>>
    /\ UNCHANGED pipeline_vars
    /\ UNCHANGED tool_vars

\* an except block that returns what was collected so far
ApiExceptPartial ==
    /\ errors' = Append(errors, "Search error")
    /\ results' = all_results
    /\ outcome' = "returned"
    /\ pc' = "done"
    /\ UNCHANGED <<qi, all_results>>

\* except Exception as e: st.error(...); return []
ApiExcept ==
    /\ errors' = Append(errors, "Search error")
    /\ results' = <<>>
    /\ outcome' = "returned"
    /\ pc' = "done"
    /\ UNCHANGED <<qi, all_results>>

\* a loop that treats every status other than 200 as an error
ApiRequestStrict ==
    /\ op = "sttm_api" /\ pc = "request"
    /\ qi <= Len(search_queries)
    /\ \E response \in Responses :
        /\ requests' = Append(requests, search_queries[qi])
        /\ responses' = Append(responses, response)
        /\ IF response.status = 0
           THEN ApiExcept
           ELSE IF response.status = HttpOk
                THEN IF ~response.json_ok
                     THEN ApiExcept
                     ELSE /\ all_results' =
                                IF response.has_verses /\ response.verses # <<>>
                                THEN AppendVerses(all_results, response.verses, query_text)
                                ELSE all_results
                          /\ qi' = qi + 1
                          /\ UNCHANGED <<results, outcome, pc, errors>>
                ELSE ApiExcept
    /\ UNCHANGED <<op, query_arg, query_text, limit, data, words, search_queries>>
    /\ UNCHANGED pipeline_vars
    /\ UNCHANGED tool_vars

\* lines 178-214: one pass of the loop over search_queries
ApiRequest ==
    /\ op = "sttm_api" /\ pc = "request"
    /\ qi <= Len(search_queries)
    /\ \E response \in Responses :
        /\ requests' = Append(requests, search_queries[qi])
        /\ responses' = Append(responses, response)
        /\ IF response.status = 0
           THEN ApiExcept
           ELSE IF response.status = HttpOk
                THEN IF ~response.json_ok
                     THEN ApiExcept
                     ELSE /\ all_results' =
                                IF response.has_verses /\ response.verses # <<>>
                                THEN AppendVerses(all_results, response.verses, query_text)
                                ELSE all_results
                          /\ qi' = qi + 1
                          /\ UNCHANGED <<results, outcome, pc, errors>>
                ELSE /\ qi' = qi + 1
                     /\ UNCHANGED <<all_results, results, outcome, pc, errors>>
    /\ UNCHANGED <<op, query_arg, query_text, limit, data, words, search_queries>>
    /\ UNCHANGED pipeline_vars
    /\ UNCHANGED tool_vars

\* lines 216-227: drop the duplicates, sort, cut
ApiFinish ==
    /\ op = "sttm_api" /\ pc = "request"
    /\ qi > Len(search_queries)
    /\ results' = Slice(SortDesc(UniqueResults(all_results)), 0, limit)
    /\ outcome' = "returned"
    /\ pc' = "done"
    /\ UNCHANGED <<op, query_arg, query_text, limit, data, words, search_queries, qi,
                   all_results, requests, responses, errors>>
    /\ UNCHANGED pipeline_vars
    /\ UNCHANGED tool_vars

----------------------------------------------------------------------------
(* main_app.py, process_gurbani_audio(audio_file_path, use_audio_cleaning) *)

search_vars == <<query_arg, query_text, limit, data, words, search_queries, qi,
                 all_results, requests, responses>>

\* lines 273-276: the file check
PipeCheckFile ==
    /\ op = "pipeline" /\ pc = "call"
    /\ IF ~file_exists
       THEN /\ errors' = Append(errors, "File not found")
            /\ outcome' = "returned_none"
            /\ pc' = "done"
       ELSE /\ pc' = "clean"
            /\ UNCHANGED <<errors, outcome>>
    /\ UNCHANGED <<op, results, file_exists, use_audio_cleaning, clean_outcome,
                   audio_to_transcribe, devanagari_text, gurmukhi_text, stages>>
    /\ UNCHANGED search_vars
    /\ UNCHANGED tool_vars

\* lines 278-287 with clean_audio_file (lines 57-104): only ImportError is caught
PipeClean ==
    /\ op = "pipeline" /\ pc = "clean"
    /\ IF use_audio_cleaning
       THEN /\ stages' = Append(stages, "clean")
            /\ \E how \in CleanOutcomes :
                /\ clean_outcome' = how
                /\ CASE how = "cleaned" ->
                          /\ audio_to_transcribe' = "cleaned_audio.wav"
                          /\ pc' = "transcribe"
                          /\ UNCHANGED <<errors, outcome>>
                     [] how = "ImportError" ->
                          /\ errors' = Append(errors, "Audio cleaning libraries not installed")
                          /\ audio_to_transcribe' = "audio_file_path"
                          /\ pc' = "transcribe"
                          /\ UNCHANGED outcome
                     [] OTHER ->
                          /\ outcome' = "raised"
                          /\ pc' = "done"
                          /\ UNCHANGED <<errors, audio_to_transcribe>>
       ELSE /\ audio_to_transcribe' = "audio_file_path"
            /\ pc' = "transcribe"
            /\ UNCHANGED <<stages, clean_outcome, errors, outcome>>
    /\ UNCHANGED <<op, results, file_exists, use_audio_cleaning, devanagari_text,
                   gurmukhi_text>>
    /\ UNCHANGED search_vars
    /\ UNCHANGED tool_vars

\* a transcription step that goes on with an empty transcript
PipeTranscribeUnchecked ==
    /\ op = "pipeline" /\ pc = "transcribe"
    /\ stages' = Append(stages, "transcribe")
    /\ \E heard \in Transcripts : devanagari_text' = Strip(heard)
    /\ pc' = "convert"
    /\ UNCHANGED <<op, results, outcome, errors, file_exists, use_audio_cleaning,
                   clean_outcome, audio_to_transcribe, gurmukhi_text>>
    /\ UNCHANGED search_vars
    /\ UNCHANGED tool_vars

\* lines 289-296 with transcribe_audio_to_devanagari (lines 107-133)
PipeTranscribe ==
    /\ op = "pipeline" /\ pc = "transcribe"
    /\ stages' = Append(stages, "transcribe")
    /\ \E heard \in Transcripts :
        /\ devanagari_text' = Strip(heard)
        /\ IF devanagari_text' = <<>>
           THEN /\ errors' = Append(errors, "Transcription failed")
                /\ outcome' = "returned_none"
                /\ pc' = "done"
           ELSE /\ pc' = "convert"
                /\ UNCHANGED <<errors, outcome>>
    /\ UNCHANGED <<op, results, file_exists, use_audio_cleaning, clean_outcome,
                   audio_to_transcribe, gurmukhi_text>>
    /\ UNCHANGED search_vars
    /\ UNCHANGED tool_vars

\* lines 298-305 with convert_devanagari_to_gurmukhi (lines 136-160)
PipeConvert ==
    /\ op = "pipeline" /\ pc = "convert"
    /\ stages' = Append(stages, "transliterate")
    /\ gurmukhi_text' = convert_devanagari_to_gurmukhi(devanagari_text)
    /\ IF gurmukhi_text' = <<>>
       THEN /\ errors' = Append(errors, "Conversion failed")
            /\ outcome' = "returned_none"
            /\ pc' = "done"
       ELSE /\ pc' = "search"
            /\ UNCHANGED <<errors, outcome>>
    /\ UNCHANGED <<op, results, file_exists, use_audio_cleaning, clean_outcome,
                   audio_to_transcribe, devanagari_text>>
    /\ UNCHANGED search_vars
    /\ UNCHANGED tool_vars

\* lines 307-310: results = search_gurbani(gurmukhi_text, limit=5)
PipeSearch ==
    /\ op = "pipeline" /\ pc = "search"
    /\ stages' = Append(stages, "search")
    /\ query_arg' = gurmukhi_text
    /\ query_text' = clean_gurmukhi_text_main(gurmukhi_text)
    /\ words' = QueryWords(query_text')
    /\ results' = main_search_gurbani(gurmukhi_text, data, limit)
    /\ errors' = IF words' = <<>> THEN Append(errors, "No meaningful words") ELSE errors
    /\ pc' = "display"
    /\ UNCHANGED <<op, outcome, limit, data, search_queries, qi, all_results,
                   requests, responses>>
    /\ UNCHANGED <<file_exists, use_audio_cleaning, clean_outcome, audio_to_transcribe,
                   devanagari_text, gurmukhi_text>>
    /\ UNCHANGED tool_vars

\* lines 312-324: display_results(results); return results
PipeDisplay ==
    /\ op = "pipeline" /\ pc = "display"
    /\ stages' = Append(stages, "display")
    /\ outcome' = "returned"
    /\ pc' = "done"
    /\ UNCHANGED <<op, results, errors, file_exists, use_audio_cleaning, clean_outcome,
                   audio_to_transcribe, devanagari_text, gurmukhi_text>>
    /\ UNCHANGED search_vars
    /\ UNCHANGED tool_vars

----------------------------------------------------------------------------
(* clean_gurmukhi_text(text), called on a text and then on its own result, as
   the searches do with the text convert_to_gurmukhi has already cleaned *)

CleanText ==
    /\ op = "clean" /\ pc = "call"
    /\ passes < 2
    /\ prev_value' = text_value
    /\ text_value' = IF variant = "main"
                     THEN clean_gurmukhi_text_main(text_value)
                     ELSE clean_gurmukhi_text_app(text_value)
    /\ passes' = passes + 1
    /\ pc' = IF passes' = 2 THEN "done" ELSE pc
    /\ outcome' = IF passes' = 2 THEN "returned" ELSE outcome
    /\ UNCHANGED <<op, results, errors, variant, listing, fi, json_records, file_count>>
    /\ UNCHANGED search_vars
    /\ UNCHANGED pipeline_vars

----------------------------------------------------------------------------
(* convert_to_json.py, the loop over the files and the saving *)

\* a loop that stops at the first file toml.load rejects
ConvertFileAbort ==
    /\ op = "convert" /\ pc = "call"
    /\ fi <= Cardinality(listing)
    /\ LET fname == SortedNames(listing)[fi]
           file  == TomlFiles[fname]
       IN  IF file.toml /\ ~file.parses
           THEN /\ file_count' = file_count + 1
                /\ outcome' = "raised"
                /\ pc' = "done"
                /\ UNCHANGED <<errors, json_records, fi>>
           ELSE /\ file_count' = IF file.toml THEN file_count + 1 ELSE file_count
                /\ json_records' = IF file.toml
                                   THEN json_records \o PrimaryRecords(fname, file.content, 1)
                                   ELSE json_records
                /\ fi' = fi + 1
                /\ UNCHANGED <<errors, outcome, pc>>
    /\ UNCHANGED <<op, results, variant, text_value, prev_value, passes, listing>>
    /\ UNCHANGED search_vars
    /\ UNCHANGED pipeline_vars

\* lines 32-113: one pass of the loop over sorted(files)
ConvertFile ==
    /\ op = "convert" /\ pc = "call"
    /\ fi <= Cardinality(listing)
    /\ LET fname == SortedNames(listing)[fi]
           file  == TomlFiles[fname]
       IN  IF ~file.toml
           THEN UNCHANGED <<file_count, errors, json_records>>
           ELSE /\ file_count' = file_count + 1
                /\ IF ~file.parses
                   THEN /\ errors' = Append(errors, "Could not parse")
                        /\ UNCHANGED json_records
                   ELSE /\ json_records' =
                              json_records \o PrimaryRecords(fname, file.content, 1)
                        /\ UNCHANGED errors
    /\ fi' = fi + 1
    /\ UNCHANGED <<op, pc, outcome, results, variant, text_value, prev_value, passes,
                   listing>>
    /\ UNCHANGED search_vars
    /\ UNCHANGED pipeline_vars

\* lines 115-128: json.dump(records, f) into gurbani.json
ConvertSave ==
    /\ op = "convert" /\ pc = "call"
    /\ fi > Cardinality(listing)
    /\ data' = json_records
    /\ outcome' = "returned"
    /\ pc' = "done"
    /\ UNCHANGED <<op, results, errors, query_arg, query_text, limit, words,
                   search_queries, qi, all_results, requests, responses>>
    /\ UNCHANGED pipeline_vars
    /\ UNCHANGED tool_vars

----------------------------------------------------------------------------

Next ==
    \/ MainSearch
    \/ ConvSearch
    \/ ApiStart
    \/ ApiRequest
    \/ ApiFinish
    \/ PipeCheckFile
    \/ PipeClean
    \/ PipeTranscribe
    \/ PipeConvert
    \/ PipeSearch
    \/ PipeDisplay
    \/ CleanText
    \/ ConvertFile
    \/ ConvertSave

Spec == Init /\ [][Next]_vars

----------------------------------------------------------------------------
(* Properties *)

Range(seq) == {seq[i] : i \in 1..Len(seq)}

ApiReturned   == op = "sttm_api" /\ pc = "done" /\ outcome = "returned"
MainReturned  == op = "main_search" /\ pc = "done" /\ outcome = "returned"
ConvReturned  == op = "conv_search" /\ pc = "done" /\ outcome = "returned"

DistinctLines(rs) ==
    \A i, j \in 1..Len(rs) : i < j => rs[i].gurmukhi # rs[j].gurmukhi

\* C1: the list search_sttm_api returns holds no two results with the same
\* gurmukhi string, whatever the query, the limit and the remote responses.
C1_ApiResultsDistinct == ApiReturned => DistinctLines(results)

\* C1 happens: the responses delivered the same line twice and two results
\* were returned.
C1_Witness ==
    /\ ApiReturned
    /\ ~DistinctLines(all_results)
    /\ Len(results) >= 2

\* C2: the list main_app.search_gurbani returns holds no two results with the
\* same gurmukhi string, also when the corpus holds a line in several records.
C2_MainResultsDistinct == MainReturned => DistinctLines(results)

\* C3: the returned list (main_app.search_gurbani, search_sttm_api) is in
\* non-increasing order of score, and results of equal score keep the order in
\* which they were met (corpus order, order of arrival of the verses).
C3_SortedStable ==
    (pc = "done" /\ outcome = "returned" /\ op \in {"main_search", "sttm_api", "pipeline"}) =>
        \A i, j \in 1..Len(results) : i < j =>
            /\ ~ScoreLess(ScoreOf(results[i]), ScoreOf(results[j]))
            /\ ScoreEqual(ScoreOf(results[i]), ScoreOf(results[j]))
                  => results[i].src < results[j].src

\* C3 happens: a returned list where the sort moved a later verse forward and
\* two results tie.
C3_Witness ==
    /\ ApiReturned
    /\ \E i, j \in 1..Len(results) :
          i < j /\ ScoreEqual(ScoreOf(results[i]), ScoreOf(results[j]))
    /\ \E i, j \in 1..Len(results) : i < j /\ results[i].src > results[j].src

\* the cleaned query has no word longer than 2 characters
NoLongWord(cleaned) == \A w \in Range(Split(cleaned)) : Len(w) <= 2

\* C4: when the cleaned query has no word longer than 2 characters,
\* main_app.search_gurbani and search_sttm_api return an empty list without
\* raising, and search_sttm_api issues no remote request.
C4_NoWordsEmptyResult ==
    /\ (op = "main_search" /\ pc = "done" /\ NoLongWord(clean_gurmukhi_text_main(query_arg)))
          => (outcome = "returned" /\ results = <<>>)
    /\ (op = "sttm_api" /\ pc = "done" /\ NoLongWord(clean_gurmukhi_text_app(query_arg)))
          => (outcome = "returned" /\ results = <<>> /\ requests = <<>>)

\* C4 happens: a query that is not empty but has only short words was searched
\* in a corpus that contains one of them.
C4_Witness ==
    /\ op = "main_search" /\ pc = "done"
    /\ query_text # <<>>
    /\ NoLongWord(query_text)
    /\ \E r \in Range(data) : \E w \in Range(Split(query_text)) : Contains(r.gurmukhi, w)

\* C5: convert_to_json.search_gurbani called with the empty query returns an
\* empty list, for every corpus.
C5_EmptyQueryEmptyResult ==
    (op = "conv_search" /\ pc = "done" /\ query_arg = <<>>) => results = <<>>

\* the English text the record should show: the first 'en' translation whose
\* asset is SBMS or DSSK, else the first 'en' translation, else ''
HasEnglish(record) ==
    "en" \in DOMAIN record.translations /\ record.translations["en"] # <<>>

ExpectedEnglish(record) ==
    IF ~HasEnglish(record) THEN ""
    ELSE LET en == record.translations["en"]
             pref == {k \in 1..Len(en) : en[k].asset \in {"SBMS", "DSSK"}}
         IN  IF pref # {}
             THEN en[CHOOSE k \in pref : \A m \in pref : k <= m].text
             ELSE en[1].text

\* C6: the english field of a result of the local searches is the text of the
\* record's first 'en' translation with asset SBMS or DSSK, else of its first
\* 'en' translation, else the empty string; never a text of another language.
C6_EnglishPreferred ==
    (MainReturned \/ ConvReturned) =>
        \A i \in 1..Len(results) :
            results[i].english = ExpectedEnglish(data[results[i].src])

\* C6 happens: a returned record whose preferred translation is not its first
\* one, and a returned record with Punjabi translations only.
C6_Witness ==
    /\ MainReturned
    /\ \E i \in 1..Len(results) :
          LET rec == data[results[i].src]
          IN  HasEnglish(rec) /\ results[i].english # rec.translations["en"][1].text
    /\ \E i \in 1..Len(results) :
          LET rec == data[results[i].src]
          IN  ~HasEnglish(rec) /\ "pa" \in DOMAIN rec.translations

\* the entries of the word list found in the line
WordsFound(ws, gurmukhi) == {k \in 1..Len(ws) : Contains(gurmukhi, ws[k])}

\* C7: in main_app.search_gurbani the match_score of a line is the number of
\* entries of the query word list that occur in its gurmukhi text; a line is
\* returned only with a match_score of at least 1, and no match_score exceeds
\* the number of query words.
C7_MatchScoreCounts ==
    MainReturned =>
        LET ws == LongWords(Split(query_text))
        IN  \A i \in 1..Len(results) :
                /\ results[i].match_score =
                      Cardinality(WordsFound(ws, data[results[i].src].gurmukhi))
                /\ results[i].match_score >= 1
                /\ results[i].match_score <= Len(ws)

\* C7 happens: a query that repeats a word matched a line.
C7_Witness ==
    /\ MainReturned
    /\ \E a, b \in 1..Len(words) : a < b /\ words[a] = words[b]
    /\ \E i \in 1..Len(results) : results[i].match_score >= 2

StageOrder == <<"clean", "transcribe", "transliterate", "search", "display">>

StageNo(st) == CHOOSE k \in 1..Len(StageOrder) : StageOrder[k] = st

Started(st) == st \in Range(stages)

LastStage == IF stages = <<>> THEN "none" ELSE stages[Len(stages)]

\* C8: process_gurbani_audio runs clean (when enabled), transcribe,
\* transliterate, search, display in this order; no transcription unless the
\* file exists, no transliteration unless the transcript is not empty, no search
\* unless the Gurmukhi text is not empty; on a missing file, an empty
\* transcript or an empty Gurmukhi text it returns None and no later stage runs.
C8_StagesInOrder ==
    op = "pipeline" =>
        /\ \A i, j \in 1..Len(stages) : i < j => StageNo(stages[i]) < StageNo(stages[j])
        /\ Started("clean") => use_audio_cleaning
        /\ Started("transcribe") =>
              (file_exists /\ (use_audio_cleaning => stages[1] = "clean"))
        /\ Started("transliterate") => (Started("transcribe") /\ devanagari_text # <<>>)
        /\ Started("search") => (Started("transliterate") /\ gurmukhi_text # <<>>)
        /\ Started("display") => Started("search")
        /\ (pc = "done" /\ ~file_exists) => (outcome = "returned_none" /\ stages = <<>>)
        /\ (pc = "done" /\ Started("transcribe") /\ devanagari_text = <<>>)
              => (outcome = "returned_none" /\ LastStage = "transcribe")
        /\ (pc = "done" /\ Started("transliterate") /\ gurmukhi_text = <<>>)
              => (outcome = "returned_none" /\ LastStage = "transliterate")

\* C8 happens: a transcript that is not empty gave an empty Gurmukhi text and
\* the function returned None after the transliteration.
C8_Witness ==
    /\ op = "pipeline" /\ pc = "done"
    /\ outcome = "returned_none"
    /\ stages = <<"clean", "transcribe", "transliterate">>
    /\ devanagari_text # <<>>

\* C9: if the audio cleaning fails for any reason, the failure is logged and
\* the pipeline goes on: the original audio file is transcribed.
C9_CleaningFailureContinues ==
    (op = "pipeline" /\ clean_outcome \in {"ImportError", "Exception"}) =>
        /\ outcome # "raised"
        /\ errors # <<>>
        /\ audio_to_transcribe = "audio_file_path"
        /\ pc # "clean"

\* a request raised, or the body of a 200 response could not be handled
Failed(response) ==
    response.status = 0 \/ (response.status = HttpOk /\ ~response.json_ok)

\* C10: search_sttm_api never raises; when a request or the handling of a
\* response fails, the error is reported and the empty list is returned, also
\* when earlier queries of the call yielded verses.
C10_ApiNeverRaises ==
    op = "sttm_api" =>
        /\ outcome # "raised"
        /\ (\E k \in 1..Len(responses) : Failed(responses[k])) =>
              /\ pc = "done" /\ outcome = "returned"
              /\ results = <<>>
              /\ errors # <<>>

\* C10 happens: a request failed after earlier responses had yielded verses.
C10_Witness ==
    /\ op = "sttm_api" /\ pc = "done"
    /\ responses # <<>>
    /\ Failed(responses[Len(responses)])
    /\ all_results # <<>>

\* the record lacks a page, a line or its translations
Incomplete(record) ==
    record.page = Absent \/ record.line = Absent \/ record.translations = <<>>

\* record i of the corpus matches the query of this call
MatchesQuery(i) ==
    IF op = "main_search"
    THEN WordsFound(LongWords(Split(query_text)), data[i].gurmukhi) # {}
    ELSE \/ Contains(data[i].gurmukhi, query_arg)
         \/ Contains(Lower(data[i].gurmukhi), Lower(query_arg))

\* C11: a local search over a corpus with records that have no page, no line
\* or no translations never raises; such a record is matched like any other
\* and is returned with page and line null and english empty.
C11_IncompleteRecordsReturned ==
    op \in {"main_search", "conv_search"} =>
        /\ outcome # "raised"
        /\ pc = "done" =>
              /\ outcome = "returned"
              /\ \A k \in 1..Len(results) :
                    LET rec == data[results[k].src]
                    IN  /\ results[k].gurmukhi = rec.gurmukhi
                        /\ results[k].page = rec.page
                        /\ results[k].line = rec.line
                        /\ rec.translations = <<>> => results[k].english = ""
              /\ limit >= Len(data) =>
                    \A i \in 1..Len(data) :
                        (Incomplete(data[i]) /\ MatchesQuery(i))
                            => \E k \in 1..Len(results) : results[k].src = i

\* C11 happens: a record without page, line and translations was returned
\* next to a complete one.
C11_Witness ==
    /\ MainReturned
    /\ Len(results) = 2
    /\ \E k \in 1..Len(results) :
          /\ results[k].page = Absent /\ results[k].line = Absent
          /\ results[k].english = ""
          /\ data[results[k].src].translations = <<>>
    /\ \E k \in 1..Len(results) : results[k].page # Absent

Min(a, b) == IF a <= b THEN a ELSE b

\* the corpus lines with a match_score of at least 1
MainCandidates ==
    {i \in 1..Len(data) : WordsFound(LongWords(Split(query_text)), data[i].gurmukhi) # {}}

\* the distinct gurmukhi values received from the remote API
ApiCandidates == {all_results[k].gurmukhi : k \in 1..Len(all_results)}

MainCutIsBest ==
    /\ Len(results) = Min(limit, Cardinality(MainCandidates))
    /\ \A i \in MainCandidates :
          (\A k \in 1..Len(results) : results[k].src # i) =>
              \A k \in 1..Len(results) :
                  Cardinality(WordsFound(LongWords(Split(query_text)), data[i].gurmukhi))
                      <= results[k].match_score

ApiCutIsBest ==
    /\ Len(results) = Min(limit, Cardinality(ApiCandidates))
    /\ \A n \in 1..Len(all_results) :
          (\A k \in 1..Len(results) : results[k].gurmukhi # all_results[n].gurmukhi) =>
              \A k \in 1..Len(results) :
                  ~ScoreLess(ScoreOf(results[k]), ScoreOf(all_results[n]))

NoFailure == \A k \in 1..Len(responses) : ~Failed(responses[k])

\* C12 as stated: for every limit >= 0 both searches return exactly
\* min(limit, number of candidates) results, and no candidate left out has a
\* strictly higher score than a returned one.
C12_ExactlyMinLimit ==
    /\ MainReturned => MainCutIsBest
    /\ ApiReturned => ApiCutIsBest

\* C12 as amended: the same, for search_sttm_api only when no request and no
\* response handling failed (after a failure the list is empty).
C12_ExactlyMinLimitUnlessFailed ==
    /\ MainReturned => MainCutIsBest
    /\ (ApiReturned /\ NoFailure) => ApiCutIsBest

\* C12 happens: more distinct lines were received than the limit allows, and
\* the list was cut.
C12_Witness ==
    /\ ApiReturned /\ NoFailure
    /\ limit = 1
    /\ Cardinality(ApiCandidates) >= 2
    /\ Len(results) = 1

\* C13: for every limit >= 0 convert_to_json.search_gurbani returns at most
\* limit results, and they are the earliest records in corpus order whose
\* gurmukhi text contains the query (exactly or case-insensitively).
C13_ConvAtMostLimitEarliest ==
    ConvReturned =>
        /\ Len(results) <= limit
        /\ \A k \in 1..Len(results) : MatchesQuery(results[k].src)
        /\ \A k, j \in 1..Len(results) : k < j => results[k].src < results[j].src
        /\ \A i \in 1..Len(data) :
              (MatchesQuery(i) /\ \E k \in 1..Len(results) : i < results[k].src)
                  => \E k \in 1..Len(results) : results[k].src = i

\* words a to b of the word list (counted from 1), as many as there are
WordsFromTo(ws, a, b) == [k \in 1..(Min(b, Len(ws)) - a + 1) |-> ws[a + k - 1]]

\* the three strategies: the first five words, the first three, words 2 to 4
Scheduled ==
    << JoinSpace(WordsFromTo(words, 1, 5)),
       JoinSpace(WordsFromTo(words, 1, 3)),
       JoinSpace(WordsFromTo(words, 2, 4)) >>

FirstAt(q) == CHOOSE p \in 1..3 : Scheduled[p] = q /\ \A o \in 1..(p - 1) : Scheduled[o] # q

\* C14: one call of search_sttm_api issues at most three remote requests, in
\* the order first five words, first three words, words 2 to 4, and a query
\* string equal to one already scheduled is not sent a second time.
C14_RequestsScheduled ==
    op = "sttm_api" =>
        /\ Len(requests) <= 3
        /\ \A k \in 1..Len(requests) : requests[k] \in Range(Scheduled)
        /\ \A k, j \in 1..Len(requests) : k < j =>
              /\ requests[k] # requests[j]
              /\ FirstAt(requests[k]) < FirstAt(requests[j])
        /\ \A k \in 1..Len(requests) : \A o \in 1..(FirstAt(requests[k]) - 1) :
              \E j \in 1..(k - 1) : requests[j] = Scheduled[o]

\* C14 happens: three different requests were issued in one call.
C14_Witness ==
    /\ op = "sttm_api" /\ pc = "done"
    /\ Len(requests) = 3
    /\ requests = Scheduled

\* C15: every query string search_sttm_api sends to the remote API is not
\* empty: it holds at least one query word.
C15_RequestsNotEmpty ==
    op = "sttm_api" =>
        \A k \in 1..Len(requests) :
            /\ requests[k] # <<>>
            /\ \E w \in Range(words) : Contains(requests[k], w)

\* the response is skipped: a status other than 200, or 200 without verses
Skipped(response) ==
    /\ ~Failed(response)
    /\ response.status # HttpOk \/ ~response.has_verses \/ response.verses = <<>>

\* the gurmukhi lines of the verses of the responses that are not skipped
RECURSIVE ReceivedLines(_)
ReceivedLines(rs) ==
    IF rs = <<>> THEN <<>>
    ELSE (IF Skipped(Head(rs)) \/ Failed(Head(rs)) THEN <<>>
          ELSE [k \in 1..Len(Head(rs).verses) |-> Head(rs).verses[k].gurmukhi])
         \o ReceivedLines(Tail(rs))

\* C16: a response with a status other than 200, or a 200 response without
\* verses, is skipped without error: the remaining queries are still issued
\* and the verses of the other responses are still returned.
C16_SkippedResponses ==
    (op = "sttm_api" /\ NoFailure) =>
        /\ errors = <<>>
        /\ outcome # "raised"
        /\ [k \in 1..Len(all_results) |-> all_results[k].gurmukhi] = ReceivedLines(responses)
        /\ pc = "request" => Len(requests) = qi - 1
        /\ (pc = "done" /\ words # <<>>) =>
              /\ requests = search_queries
              /\ \A g \in Range(ReceivedLines(responses)) :
                    limit >= Cardinality(ApiCandidates)
                        => \E k \in 1..Len(results) : results[k].gurmukhi = g

\* C16 happens: a status other than 200 and a 200 response without verses were
\* skipped, a later response brought a verse, and the verse was returned.
C16_Witness ==
    /\ ApiReturned /\ NoFailure
    /\ Len(responses) = 3
    /\ responses[1].status # HttpOk
    /\ responses[2].status = HttpOk /\ ~responses[2].has_verses
    /\ ~Skipped(responses[3])
    /\ Len(results) = 1

\* only Gurmukhi characters and whitespace, no whitespace at either end, no
\* two whitespace characters in a row
CleanedWell(t) ==
    /\ \A k \in 1..Len(t) : IsGurmukhi(t[k]) \/ IsSpace(t[k])
    /\ t # <<>> => (~IsSpace(t[1]) /\ ~IsSpace(t[Len(t)]))
    /\ \A k \in 1..(Len(t) - 1) : ~(IsSpace(t[k]) /\ IsSpace(t[k + 1]))

\* C17: for every input the result of clean_gurmukhi_text (both variants)
\* holds only characters of the Gurmukhi block and whitespace, has no leading
\* or trailing whitespace and no run of two or more whitespace characters.
C17_CleanedWell ==
    (op = "clean" /\ passes >= 1) => CleanedWell(text_value)

\* C18: clean_gurmukhi_text is idempotent: cleaning a cleaned text changes
\* nothing.
C18_CleanIdempotent ==
    (op = "clean" /\ passes = 2) => text_value = prev_value

\* toml.load rejects the file / accepts it
Unparsable(fname) == TomlFiles[fname].toml /\ ~TomlFiles[fname].parses
Parsable(fname) == TomlFiles[fname].toml /\ TomlFiles[fname].parses

\* the files the loop has been through
Visited == {n \in listing : Cardinality({m \in listing : m < n}) < fi - 1}

\* the non-empty primary lines of a file
PrimaryLines(fname) ==
    {Strip(b.data) : b \in {c \in Range(TomlFiles[fname].content) : c.type = "primary"}}
        \ {<<>>}

\* the lines the records of a file hold
RecordedLines(fname) ==
    {json_records[k].gurmukhi :
        k \in {j \in 1..Len(json_records) : json_records[j].source_file = fname}}

\* C19: a TOML file that fails to parse is reported and skipped by the
\* converter: there is one report for each such file gone through, no record
\* comes from it, the conversion does not abort, and every other file is
\* still processed: at the end every .toml file was counted, every file that
\* parses has its primary lines in the records, and the records were saved.
C19_UnparsableSkipped ==
    op = "convert" =>
        /\ outcome # "raised"
        /\ Len(errors) = Cardinality({n \in Visited : Unparsable(n)})
        /\ \A k \in 1..Len(json_records) : Parsable(json_records[k].source_file)
        /\ pc = "done" =>
              /\ Visited = listing
              /\ file_count = Cardinality({n \in listing : TomlFiles[n].toml})
              /\ \A n \in listing : Parsable(n) => RecordedLines(n) = PrimaryLines(n)
              /\ data = json_records

\* C19 happens: the conversion ended with a file that does not parse between
\* two files that parse, and both of those have records.
C19_Witness ==
    /\ op = "convert" /\ pc = "done"
    /\ errors # <<>>
    /\ \E a, n, b \in listing :
          /\ a < n /\ n < b
          /\ Unparsable(n)
          /\ RecordedLines(a) # {} /\ RecordedLines(b) # {}

====
